---- MODULE Spec2Model ----
(***************************************************************************)
(* The instruction handlers and dispatch table of the dax86 emulator core  *)
(* (instructions.c, the near conditional jumps, emulator.h) as a state     *)
(* machine over the Emulator struct.                                       *)
(*                                                                         *)
(* A uint32_t is a little-endian tuple of four bytes, so that every sum    *)
(* and difference is taken modulo 2^32 by construction and the byte order  *)
(* of memory is the order of the tuple.  A uint64_t is a tuple of eight.   *)
(* An int is its two's complement bit pattern.                             *)
(***************************************************************************)
EXTENDS Integers, Sequences, FiniteSets, TLC

\* Bounds of the model.
MemSize == 32
MaxSteps == 5

\* enum Register (emulator.h)
EAX == 0
ECX == 1
EDX == 2
EBX == 3
ESP == 4
EBP == 5
ESI == 6
EDI == 7
REGISTERS_COUNT == 8

\* The four eflags bits the flag evaluator uses.
CARRY_BIT == 0
ZERO_BIT == 6
SIGN_BIT == 7
OVERFLOW_BIT == 11

Byte == 0..255

----------------------------------------------------------------------------
\* Fixed-width arithmetic on little-endian byte tuples.

RECURSIVE AddCarry(_, _, _)
AddCarry(a, b, c) ==
    IF a = <<>> THEN <<>>
    ELSE LET s == Head(a) + Head(b) + c
         IN  <<s % 256>> \o AddCarry(Tail(a), Tail(b), s \div 256)

RECURSIVE SubBorrow(_, _, _)
SubBorrow(a, b, c) ==
    IF a = <<>> THEN <<>>
    ELSE LET d == Head(a) - Head(b) - c
         IN  <<(d + 256) % 256>> \o SubBorrow(Tail(a), Tail(b), IF d < 0 THEN 1 ELSE 0)

\* uint32_t + uint32_t and uint32_t - uint32_t
Add32(a, b) == AddCarry(a, b, 0)
Sub32(a, b) == SubBorrow(a, b, 0)

\* (uint32_t)n for a small non-negative int n
U32(n) == <<n % 256, (n \div 256) % 256, (n \div 65536) % 256, 0>>

\* (uint64_t)a - (uint64_t)b
Sub64(a, b) == SubBorrow(a \o <<0, 0, 0, 0>>, b \o <<0, 0, 0, 0>>, 0)

\* (uint32_t)r of a uint64_t r
Low32(r) == SubSeq(r, 1, 4)

\* (int32_t)(int8_t)b and (uint32_t)(uint8_t)b of a byte b
SignExt8(b) == IF b >= 128 THEN <<b, 255, 255, 255>> ELSE <<b, 0, 0, 0>>
ZeroExt8(b) == <<b, 0, 0, 0>>

\* bit n of a word
Bit(w, n) == (w[(n \div 8) + 1] \div (2 ^ (n % 8))) % 2

\* the word w with bit n set to v (0 or 1)
WithBit(w, n, v) ==
    LET i == (n \div 8) + 1
        p == 2 ^ (n % 8)
    IN  [w EXCEPT ![i] = @ - ((@ \div p) % 2) * p + v * p]

\* A word is usable as an index into memory when n bytes from it lie in the buffer.
Idx(w) == w[1] + 256 * w[2] + 65536 * w[3]
InMem(w, n) == w[4] = 0 /\ Idx(w) + n <= MemSize

----------------------------------------------------------------------------
\* Accessors of emulator_functions.h.  An Emulator e is the record of the
\* struct's fields (emulator.h).

get_code8(e, index) == e.memory[Idx(e.eip) + index]
get_sign_code8(e, index) == SignExt8(get_code8(e, index))
get_code32(e, index) ==
    <<get_code8(e, index), get_code8(e, index + 1),
      get_code8(e, index + 2), get_code8(e, index + 3)>>
get_sign_code32(e, index) == get_code32(e, index)

get_register32(e, reg) == e.registers[reg]
set_register32(e, reg, value) == [e EXCEPT !.registers[reg] = value]

get_memory32(e, address) ==
    LET a == Idx(address)
    IN  <<e.memory[a], e.memory[a + 1], e.memory[a + 2], e.memory[a + 3]>>
set_memory32(e, address, value) ==
    LET a == Idx(address)
    IN  [e EXCEPT !.memory = [i \in DOMAIN @ |->
                                 IF i \in a..(a + 3) THEN value[i - a + 1] ELSE @[i]]]

\* push32: ESP -= 4, then store.  pop32: load, then ESP += 4.
push32(e, value) ==
    LET address == Sub32(get_register32(e, ESP), U32(4))
    IN  set_memory32(set_register32(e, ESP, address), address, value)
pop32(e) ==
    LET address == get_register32(e, ESP)
    IN  [value |-> get_memory32(e, address),
         emu   |-> set_register32(e, ESP, Add32(address, U32(4)))]

\* The flag evaluator.
is_carry(e) == Bit(e.eflags, CARRY_BIT) = 1
is_zero(e) == Bit(e.eflags, ZERO_BIT) = 1
is_sign(e) == Bit(e.eflags, SIGN_BIT) = 1
is_overflow(e) == Bit(e.eflags, OVERFLOW_BIT) = 1

set_flag(e, bit, on) == [e EXCEPT !.eflags = WithBit(@, bit, IF on THEN 1 ELSE 0)]

\* update_eflags_sub(emu, value1, value2, result): result is the 64-bit difference.
update_eflags_sub(e, value1, value2, result) ==
    LET sign1 == Bit(value1, 31)
        sign2 == Bit(value2, 31)
        signr == Bit(Low32(result), 31)
        carry == Bit(result, 32) = 1
        zero  == Low32(result) = U32(0)
        over  == sign1 # sign2 /\ sign1 # signr
    IN  set_flag(set_flag(set_flag(set_flag(e, CARRY_BIT, carry),
                                   ZERO_BIT, zero),
                          SIGN_BIT, signr = 1),
                 OVERFLOW_BIT, over)

----------------------------------------------------------------------------
\* The ModR/M decoder of modrm.h.  parse_modrm is entered with eip at the
\* ModR/M byte.  The handlers read their immediate at offset 0 from eip right
\* after the call (mov_rm32_imm32, add_rm32_imm8) and add only the opcode and
\* immediate lengths themselves, so the decoder leaves eip behind the ModR/M
\* byte and its displacement.

modrm_length(mod) == IF mod = 1 THEN 2 ELSE IF mod = 2 THEN 5 ELSE 1

parse_modrm(e) ==
    LET code == get_code8(e, 0)
        mod  == code \div 64
    IN  [modrm |-> [mod    |-> mod,
                    opcode |-> (code \div 8) % 8,
                    rm     |-> code % 8,
                    disp   |-> IF mod = 1 THEN get_sign_code8(e, 1)
                               ELSE IF mod = 2 THEN get_sign_code32(e, 1)
                               ELSE U32(0)],
         emu   |-> [e EXCEPT !.eip = Add32(@, U32(modrm_length(mod)))]]

calc_memory_address(e, modrm) ==
    IF modrm.mod = 0 THEN get_register32(e, modrm.rm)
    ELSE Add32(get_register32(e, modrm.rm), modrm.disp)

get_rm32(e, modrm) ==
    IF modrm.mod = 3 THEN get_register32(e, modrm.rm)
    ELSE get_memory32(e, calc_memory_address(e, modrm))
set_rm32(e, modrm, value) ==
    IF modrm.mod = 3 THEN set_register32(e, modrm.rm, value)
    ELSE set_memory32(e, calc_memory_address(e, modrm), value)
get_r32(e, modrm) == get_register32(e, modrm.opcode)
set_r32(e, modrm, value) == set_register32(e, modrm.opcode, value)

----------------------------------------------------------------------------
\* The instruction handlers of instructions.c.  Each maps the Emulator it is
\* called with to the Emulator it leaves.  An int sum such as (offset + 2) is
\* the sum of bit patterns, reduced modulo 2^32 when it is added to eip; the
\* displacements drawn in Init are those whose int sum does not overflow.

Advance(e, n) == [e EXCEPT !.eip = Add32(@, U32(n))]

\* short_jump reading its offset as an unsigned byte.
short_jump_unsigned(e) ==
    LET offset == ZeroExt8(get_code8(e, 1))
    IN  [e EXCEPT !.eip = Add32(@, Add32(offset, U32(2)))]

short_jump(e) ==
    LET offset == get_sign_code8(e, 1)
    IN  [e EXCEPT !.eip = Add32(@, Add32(offset, U32(2)))]

near_jump(e) ==
    LET diff == get_sign_code32(e, 1)
    IN  [e EXCEPT !.eip = Add32(@, Add32(diff, U32(5)))]

\* mov_r32_imm32 storing into the control register file.
mov_r32_imm32_control(e) ==
    LET reg   == (get_code8(e, 0) + 256 - 184) % 256
        value == get_code32(e, 1)
    IN  Advance([e EXCEPT !.control_registers[reg % 5] = value], 5)

mov_r32_imm32(e) ==
    LET reg   == (get_code8(e, 0) + 256 - 184) % 256
        value == get_code32(e, 1)
    IN  Advance(set_register32(e, reg, value), 5)

\* mov_rm32_imm32 stepping over three of the four immediate bytes.
mov_rm32_imm32_short(e) ==
    LET p     == parse_modrm(Advance(e, 1))
        value == get_code32(p.emu, 0)
    IN  set_rm32(Advance(p.emu, 3), p.modrm, value)

mov_rm32_imm32(e) ==
    LET p     == parse_modrm(Advance(e, 1))
        value == get_code32(p.emu, 0)
    IN  set_rm32(Advance(p.emu, 4), p.modrm, value)

\* mov_rm32_r32 adding the decoded length to eip itself after parse_modrm.
mov_rm32_r32_readvances(e) ==
    LET p   == parse_modrm(Advance(e, 1))
        r32 == get_r32(p.emu, p.modrm)
    IN  set_rm32(Advance(p.emu, modrm_length(p.modrm.mod)), p.modrm, r32)

mov_rm32_r32(e) ==
    LET p   == parse_modrm(Advance(e, 1))
        r32 == get_r32(p.emu, p.modrm)
    IN  set_rm32(p.emu, p.modrm, r32)

\* mov_r32_rm32 copying in the direction of mov_rm32_r32.
mov_r32_rm32_reversed(e) ==
    LET p   == parse_modrm(Advance(e, 1))
        r32 == get_r32(p.emu, p.modrm)
    IN  set_rm32(p.emu, p.modrm, r32)

mov_r32_rm32(e) ==
    LET p    == parse_modrm(Advance(e, 1))
        rm32 == get_rm32(p.emu, p.modrm)
    IN  set_r32(p.emu, p.modrm, rm32)

add_rm32_r32(e) ==
    LET p    == parse_modrm(Advance(e, 1))
        r32  == get_r32(p.emu, p.modrm)
        rm32 == get_rm32(p.emu, p.modrm)
    IN  set_rm32(p.emu, p.modrm, Add32(r32, rm32))

\* add_rm32_imm8 passing its sum through the flag evaluator as sub does.
add_rm32_imm8_flags(e, modrm) ==
    LET rm32   == get_rm32(e, modrm)
        imm8   == get_sign_code8(e, 0)
        result == Add32(rm32, imm8)
    IN  update_eflags_sub(set_rm32(Advance(e, 1), modrm, result),
                          rm32, imm8, result \o <<0, 0, 0, 0>>)

add_rm32_imm8(e, modrm) ==
    LET rm32 == get_rm32(e, modrm)
        imm8 == get_sign_code8(e, 0)
    IN  set_rm32(Advance(e, 1), modrm, Add32(rm32, imm8))

sub_rm32_imm8(e, modrm) ==
    LET rm32   == get_rm32(e, modrm)
        imm8   == get_sign_code8(e, 0)
        result == Sub64(rm32, imm8)
    IN  update_eflags_sub(set_rm32(Advance(e, 1), modrm, Low32(result)),
                          rm32, imm8, result)

\* cmp_rm32_imm8 storing the difference as sub_rm32_imm8 does.
cmp_rm32_imm8_stores(e, modrm) ==
    LET rm32   == get_rm32(e, modrm)
        imm8   == get_sign_code8(e, 0)
        result == Sub64(rm32, imm8)
    IN  update_eflags_sub(set_rm32(Advance(e, 1), modrm, Low32(result)),
                          rm32, imm8, result)

cmp_rm32_imm8(e, modrm) ==
    LET rm32   == get_rm32(e, modrm)
        imm8   == get_sign_code8(e, 0)
        result == Sub64(rm32, imm8)
    IN  update_eflags_sub(Advance(e, 1), rm32, imm8, result)

\* cmp_r32_rm32 subtracting in 32 bits, so that the borrow is lost.
cmp_r32_rm32_narrow(e) ==
    LET p      == parse_modrm(Advance(e, 1))
        r32    == get_r32(p.emu, p.modrm)
        rm32   == get_rm32(p.emu, p.modrm)
        result == Sub32(r32, rm32) \o <<0, 0, 0, 0>>
    IN  update_eflags_sub(p.emu, r32, rm32, result)

cmp_r32_rm32(e) ==
    LET p      == parse_modrm(Advance(e, 1))
        r32    == get_r32(p.emu, p.modrm)
        rm32   == get_rm32(p.emu, p.modrm)
        result == Sub64(r32, rm32)
    IN  update_eflags_sub(p.emu, r32, rm32, result)

\* code_83 and code_ff end the process with exit(1) on a sub-opcode they have
\* no case for: exit is TRUE and emu is the Emulator at the call of exit.
code_83(e) ==
    LET p == parse_modrm(Advance(e, 1))
    IN  CASE p.modrm.opcode = 0 -> [emu |-> add_rm32_imm8(p.emu, p.modrm), exit |-> FALSE]
          [] p.modrm.opcode = 5 -> [emu |-> sub_rm32_imm8(p.emu, p.modrm), exit |-> FALSE]
          [] p.modrm.opcode = 7 -> [emu |-> cmp_rm32_imm8(p.emu, p.modrm), exit |-> FALSE]
          [] OTHER              -> [emu |-> p.emu, exit |-> TRUE]

inc_rm32(e, modrm) ==
    LET value == get_rm32(e, modrm)
    IN  set_rm32(e, modrm, Add32(value, U32(1)))

\* code_ff without the default case: every sub-opcode increments.
code_ff_no_default(e) ==
    LET p == parse_modrm(Advance(e, 1))
    IN  [emu |-> inc_rm32(p.emu, p.modrm), exit |-> FALSE]

code_ff(e) ==
    LET p == parse_modrm(Advance(e, 1))
    IN  CASE p.modrm.opcode = 0 -> [emu |-> inc_rm32(p.emu, p.modrm), exit |-> FALSE]
          [] OTHER              -> [emu |-> p.emu, exit |-> TRUE]

push_r32(e) ==
    LET reg == (get_code8(e, 0) + 256 - 80) % 256
    IN  Advance(push32(e, get_register32(e, reg)), 1)

push_imm32(e) ==
    LET value == get_code32(e, 1)
    IN  Advance(push32(e, value), 5)

\* push_imm8 reading its immediate as a signed byte, as add_rm32_imm8 does.
push_imm8_signed(e) ==
    LET value == get_sign_code8(e, 1)
    IN  Advance(push32(e, value), 2)

push_imm8(e) ==
    LET value == ZeroExt8(get_code8(e, 1))
    IN  Advance(push32(e, value), 2)

\* pop_r32 storing into the Emulator it was called with, which drops the
\* ESP update pop32 made.
pop_r32_stale(e) ==
    LET reg == (get_code8(e, 0) + 256 - 88) % 256
        p   == pop32(e)
    IN  Advance(set_register32(e, reg, p.value), 1)

pop_r32(e) ==
    LET reg == (get_code8(e, 0) + 256 - 88) % 256
        p   == pop32(e)
    IN  Advance(set_register32(p.emu, reg, p.value), 1)

\* call_rel32 pushing the address of the call itself.
call_rel32_own(e) ==
    LET offset == get_sign_code32(e, 1)
        pushed == push32(e, e.eip)
    IN  [pushed EXCEPT !.eip = Add32(@, Add32(offset, U32(5)))]

call_rel32(e) ==
    LET offset == get_sign_code32(e, 1)
        pushed == push32(e, Add32(e.eip, U32(5)))
    IN  [pushed EXCEPT !.eip = Add32(@, Add32(offset, U32(5)))]

ret(e) ==
    LET p == pop32(e)
    IN  [p.emu EXCEPT !.eip = p.value]

\* leave without the pop: ESP takes EBP and EBP stays.
leave_no_pop(e) ==
    LET ebp_val == get_register32(e, EBP)
    IN  Advance(set_register32(e, ESP, ebp_val), 1)

leave(e) ==
    LET ebp_val == get_register32(e, EBP)
        p       == pop32(set_register32(e, ESP, ebp_val))
    IN  Advance(set_register32(p.emu, EBP, p.value), 1)

\* DEFINE_JX(flag, is_flag): j##flag and jn##flag, with is_flag(emu) as cond.
DEFINE_JX_j(e, is_flag) ==
    LET diff == IF is_flag THEN get_sign_code8(e, 1) ELSE U32(0)
    IN  [e EXCEPT !.eip = Add32(@, Add32(diff, U32(2)))]
DEFINE_JX_jn(e, is_flag) ==
    LET diff == IF is_flag THEN U32(0) ELSE get_sign_code8(e, 1)
    IN  [e EXCEPT !.eip = Add32(@, Add32(diff, U32(2)))]

jc(e) == DEFINE_JX_j(e, is_carry(e))
jnc(e) == DEFINE_JX_jn(e, is_carry(e))
jz(e) == DEFINE_JX_j(e, is_zero(e))
jnz(e) == DEFINE_JX_jn(e, is_zero(e))
js(e) == DEFINE_JX_j(e, is_sign(e))
jns(e) == DEFINE_JX_jn(e, is_sign(e))
jo(e) == DEFINE_JX_j(e, is_overflow(e))
jno(e) == DEFINE_JX_jn(e, is_overflow(e))

\* jl taking the overflow flag to be clear.
jl_no_overflow(e) ==
    LET diff == IF is_sign(e) /\ ~is_overflow(e) THEN get_sign_code8(e, 1) ELSE U32(0)
    IN  [e EXCEPT !.eip = Add32(@, Add32(diff, U32(2)))]

jl(e) ==
    LET diff == IF is_sign(e) # is_overflow(e) THEN get_sign_code8(e, 1) ELSE U32(0)
    IN  [e EXCEPT !.eip = Add32(@, Add32(diff, U32(2)))]

jle(e) ==
    LET diff == IF is_zero(e) \/ (is_sign(e) # is_overflow(e))
                THEN get_sign_code8(e, 1) ELSE U32(0)
    IN  [e EXCEPT !.eip = Add32(@, Add32(diff, U32(2)))]

\* DEFINE_NEAR_JX(flag, is_flag): j##flag##32 and jn##flag##32.
DEFINE_NEAR_JX_j(e, is_flag) ==
    LET diff == IF is_flag THEN get_sign_code32(e, 2) ELSE U32(0)
    IN  [e EXCEPT !.eip = Add32(@, Add32(diff, U32(6)))]
\* jn##flag##32 with the length of the short form.
DEFINE_NEAR_JX_jn_short(e, is_flag) ==
    LET diff == IF is_flag THEN U32(0) ELSE get_sign_code32(e, 2)
    IN  [e EXCEPT !.eip = Add32(@, Add32(diff, U32(2)))]
DEFINE_NEAR_JX_jn(e, is_flag) ==
    LET diff == IF is_flag THEN U32(0) ELSE get_sign_code32(e, 2)
    IN  [e EXCEPT !.eip = Add32(@, Add32(diff, U32(6)))]

jc32(e) == DEFINE_NEAR_JX_j(e, is_carry(e))
jnc32(e) == DEFINE_NEAR_JX_jn(e, is_carry(e))
jz32(e) == DEFINE_NEAR_JX_j(e, is_zero(e))
jnz32(e) == DEFINE_NEAR_JX_jn(e, is_zero(e))

\* jna32 without the zero test, which is jc32.
jna32_carry_only(e) ==
    LET diff == IF is_carry(e) THEN get_sign_code32(e, 2) ELSE U32(0)
    IN  [e EXCEPT !.eip = Add32(@, Add32(diff, U32(6)))]

jna32(e) ==
    LET diff == IF is_carry(e) \/ is_zero(e) THEN get_sign_code32(e, 2) ELSE U32(0)
    IN  [e EXCEPT !.eip = Add32(@, Add32(diff, U32(6)))]

ja32(e) ==
    LET diff == IF ~is_carry(e) /\ ~is_zero(e) THEN get_sign_code32(e, 2) ELSE U32(0)
    IN  [e EXCEPT !.eip = Add32(@, Add32(diff, U32(6)))]

\* jg32 taking the overflow flag to be clear.
jg32_no_overflow(e) ==
    LET diff == IF ~is_zero(e) /\ ~is_sign(e) /\ ~is_overflow(e)
                THEN get_sign_code32(e, 2) ELSE U32(0)
    IN  [e EXCEPT !.eip = Add32(@, Add32(diff, U32(6)))]

jg32(e) ==
    LET diff == IF ~is_zero(e) /\ (is_sign(e) = is_overflow(e))
                THEN get_sign_code32(e, 2) ELSE U32(0)
    IN  [e EXCEPT !.eip = Add32(@, Add32(diff, U32(6)))]

\* The table with the push loop running to i <= 8, which rebinds 0x58.
instructions_nine ==
    [op \in 0..255 |->
        CASE op = 59 -> "cmp_r32_rm32"
          [] op \in 80..88 -> "push_r32"
          [] op \in 88..95 -> "pop_r32"
          [] op = 104 -> "push_imm32"
          [] op = 106 -> "push_imm8"
          [] op = 112 -> "jo"
          [] op = 113 -> "jno"
          [] op = 114 -> "jc"
          [] op = 115 -> "jnc"
          [] op = 116 -> "jz"
          [] op = 117 -> "jnz"
          [] op = 120 -> "js"
          [] op = 121 -> "jns"
          [] op = 124 -> "jl"
          [] op = 126 -> "jle"
          [] op \in 184..191 -> "mov_r32_imm32"
          [] op = 1 -> "add_rm32_r32"
          [] op = 131 -> "code_83"
          [] op = 137 -> "mov_rm32_r32"
          [] op = 139 -> "mov_r32_rm32"
          [] op = 199 -> "mov_rm32_imm32"
          [] op = 233 -> "near_jump"
          [] op = 235 -> "short_jump"
          [] op = 255 -> "code_ff"
          [] op = 195 -> "ret"
          [] op = 232 -> "call_rel32"
          [] op = 201 -> "leave"
          [] OTHER -> "NULL"]

\* instructions[256] as init_instructions leaves it; "NULL" is the zero that
\* memset stores.
instructions ==
    [op \in 0..255 |->
        CASE op = 59 -> "cmp_r32_rm32"
          [] op \in 80..87 -> "push_r32"
          [] op \in 88..95 -> "pop_r32"
          [] op = 104 -> "push_imm32"
          [] op = 106 -> "push_imm8"
          [] op = 112 -> "jo"
          [] op = 113 -> "jno"
          [] op = 114 -> "jc"
          [] op = 115 -> "jnc"
          [] op = 116 -> "jz"
          [] op = 117 -> "jnz"
          [] op = 120 -> "js"
          [] op = 121 -> "jns"
          [] op = 124 -> "jl"
          [] op = 126 -> "jle"
          [] op \in 184..191 -> "mov_r32_imm32"
          [] op = 1 -> "add_rm32_r32"
          [] op = 131 -> "code_83"
          [] op = 137 -> "mov_rm32_r32"
          [] op = 139 -> "mov_r32_rm32"
          [] op = 199 -> "mov_rm32_imm32"
          [] op = 233 -> "near_jump"
          [] op = 235 -> "short_jump"
          [] op = 255 -> "code_ff"
          [] op = 195 -> "ret"
          [] op = 232 -> "call_rel32"
          [] op = 201 -> "leave"
          [] OTHER -> "NULL"]

----------------------------------------------------------------------------
\* What the caller owes a handler: every byte the handler touches lies inside
\* the memory buffer (the core itself checks no bound), and the ModR/M byte is
\* one of the addressing forms the decoder resolves from a base register and a
\* displacement (no SIB byte, no displacement-only form).

CodeIn(e, n) == InMem(e.eip, n)
StackIn(address) == InMem(address, 4)

\* e.eip is at the opcode; imm is the number of immediate bytes, and operand
\* tells whether the handler reads or writes the ModR/M operand.
ModRMIn(e, imm, operand) ==
    /\ CodeIn(e, 2)
    /\ LET code == get_code8(e, 1)
           mod  == code \div 64
           rm   == code % 8
       IN  /\ ~(mod # 3 /\ rm = 4)
           /\ ~(mod = 0 /\ rm = 5)
           /\ CodeIn(e, 1 + modrm_length(mod) + imm)
           /\ LET p == parse_modrm(Advance(e, 1))
              IN  operand /\ mod # 3 => InMem(calc_memory_address(p.emu, p.modrm), 4)

SubOp(e) == (get_code8(e, 1) \div 8) % 8

----------------------------------------------------------------------------
\* The state: the Emulator, why the process ended ("none" while it runs), and
\* the history of the handlers run so far with the Emulator each was called on.

VARIABLES emu, halt, hist

vars == <<emu, halt, hist>>

\* The run loop fetches the byte at eip and calls instructions[byte].
Fetch(h) ==
    /\ halt = "none"
    /\ Len(hist) < MaxSteps
    /\ CodeIn(emu, 1)
    /\ instructions[get_code8(emu, 0)] = h

\* The near conditional jumps are exported functions entered with eip at the
\* 0F prefix (their displacement is read at offset 2).
Fetch0F(second) ==
    /\ halt = "none"
    /\ Len(hist) < MaxSteps
    /\ CodeIn(emu, 2)
    /\ get_code8(emu, 0) = 15
    /\ get_code8(emu, 1) = second

Return(h, e) ==
    /\ emu' = e
    /\ hist' = Append(hist, [h |-> h, pre |-> emu])
    /\ UNCHANGED halt

ReturnOrExit(h, r) ==
    /\ emu' = r.emu
    /\ hist' = Append(hist, [h |-> h, pre |-> emu])
    /\ halt' = IF r.exit THEN "sub-opcode" ELSE "none"

Run_short_jump == Fetch("short_jump") /\ CodeIn(emu, 2) /\ Return("short_jump", short_jump(emu))
Run_near_jump == Fetch("near_jump") /\ CodeIn(emu, 5) /\ Return("near_jump", near_jump(emu))
Run_mov_r32_imm32 ==
    Fetch("mov_r32_imm32") /\ CodeIn(emu, 5) /\ Return("mov_r32_imm32", mov_r32_imm32(emu))
Run_mov_rm32_imm32 ==
    Fetch("mov_rm32_imm32") /\ ModRMIn(emu, 4, TRUE)
        /\ Return("mov_rm32_imm32", mov_rm32_imm32(emu))
Run_mov_rm32_r32 ==
    Fetch("mov_rm32_r32") /\ ModRMIn(emu, 0, TRUE) /\ Return("mov_rm32_r32", mov_rm32_r32(emu))
Run_mov_r32_rm32 ==
    Fetch("mov_r32_rm32") /\ ModRMIn(emu, 0, TRUE) /\ Return("mov_r32_rm32", mov_r32_rm32(emu))
Run_add_rm32_r32 ==
    Fetch("add_rm32_r32") /\ ModRMIn(emu, 0, TRUE) /\ Return("add_rm32_r32", add_rm32_r32(emu))
Run_cmp_r32_rm32 ==
    Fetch("cmp_r32_rm32") /\ ModRMIn(emu, 0, TRUE) /\ Return("cmp_r32_rm32", cmp_r32_rm32(emu))
Run_code_83 ==
    /\ Fetch("code_83")
    /\ CodeIn(emu, 2)
    /\ IF SubOp(emu) \in {0, 5, 7} THEN ModRMIn(emu, 1, TRUE) ELSE ModRMIn(emu, 0, FALSE)
    /\ ReturnOrExit("code_83", code_83(emu))
Run_code_ff ==
    /\ Fetch("code_ff")
    /\ CodeIn(emu, 2)
    /\ ModRMIn(emu, 0, SubOp(emu) = 0)
    /\ ReturnOrExit("code_ff", code_ff(emu))
Run_push_r32 ==
    /\ Fetch("push_r32")
    /\ StackIn(Sub32(emu.registers[ESP], U32(4)))
    /\ Return("push_r32", push_r32(emu))
Run_push_imm32 ==
    /\ Fetch("push_imm32")
    /\ CodeIn(emu, 5)
    /\ StackIn(Sub32(emu.registers[ESP], U32(4)))
    /\ Return("push_imm32", push_imm32(emu))
Run_push_imm8 ==
    /\ Fetch("push_imm8")
    /\ CodeIn(emu, 2)
    /\ StackIn(Sub32(emu.registers[ESP], U32(4)))
    /\ Return("push_imm8", push_imm8(emu))
Run_pop_r32 ==
    Fetch("pop_r32") /\ StackIn(emu.registers[ESP]) /\ Return("pop_r32", pop_r32(emu))
Run_call_rel32 ==
    /\ Fetch("call_rel32")
    /\ CodeIn(emu, 5)
    /\ StackIn(Sub32(emu.registers[ESP], U32(4)))
    /\ Return("call_rel32", call_rel32(emu))
Run_ret == Fetch("ret") /\ StackIn(emu.registers[ESP]) /\ Return("ret", ret(emu))
Run_leave == Fetch("leave") /\ StackIn(emu.registers[EBP]) /\ Return("leave", leave(emu))

\* The displacement read before the condition is tested.
ReadsAlways(h, e) == TRUE

\* The ternary of each conditional jump evaluates the read of the displacement
\* on the branch of the condition alone: ReadsDisplacement says whether the
\* handler h called on e reads it.
ReadsDisplacement(h, e) ==
    CASE h \in {"jc", "jc32"} -> is_carry(e)
      [] h \in {"jnc", "jnc32"} -> ~is_carry(e)
      [] h \in {"jz", "jz32"} -> is_zero(e)
      [] h \in {"jnz", "jnz32"} -> ~is_zero(e)
      [] h = "js" -> is_sign(e)
      [] h = "jns" -> ~is_sign(e)
      [] h = "jo" -> is_overflow(e)
      [] h = "jno" -> ~is_overflow(e)
      [] h = "jl" -> is_sign(e) # is_overflow(e)
      [] h = "jle" -> is_zero(e) \/ (is_sign(e) # is_overflow(e))
      [] h = "jna32" -> is_carry(e) \/ is_zero(e)
      [] h = "ja32" -> ~is_carry(e) /\ ~is_zero(e)
      [] h = "jg32" -> ~is_zero(e) /\ (is_sign(e) = is_overflow(e))

\* The bytes a handler reads lie inside memory.
Run_jo ==
    Fetch("jo") /\ (ReadsDisplacement("jo", emu) => CodeIn(emu, 2)) /\ Return("jo", jo(emu))
Run_jno ==
    Fetch("jno") /\ (ReadsDisplacement("jno", emu) => CodeIn(emu, 2)) /\ Return("jno", jno(emu))
Run_jc ==
    Fetch("jc") /\ (ReadsDisplacement("jc", emu) => CodeIn(emu, 2)) /\ Return("jc", jc(emu))
Run_jnc ==
    Fetch("jnc") /\ (ReadsDisplacement("jnc", emu) => CodeIn(emu, 2)) /\ Return("jnc", jnc(emu))
Run_jz ==
    Fetch("jz") /\ (ReadsDisplacement("jz", emu) => CodeIn(emu, 2)) /\ Return("jz", jz(emu))
Run_jnz ==
    Fetch("jnz") /\ (ReadsDisplacement("jnz", emu) => CodeIn(emu, 2)) /\ Return("jnz", jnz(emu))
Run_js ==
    Fetch("js") /\ (ReadsDisplacement("js", emu) => CodeIn(emu, 2)) /\ Return("js", js(emu))
Run_jns ==
    Fetch("jns") /\ (ReadsDisplacement("jns", emu) => CodeIn(emu, 2)) /\ Return("jns", jns(emu))
Run_jl ==
    Fetch("jl") /\ (ReadsDisplacement("jl", emu) => CodeIn(emu, 2)) /\ Return("jl", jl(emu))
Run_jle ==
    Fetch("jle") /\ (ReadsDisplacement("jle", emu) => CodeIn(emu, 2)) /\ Return("jle", jle(emu))

Run_jc32 ==
    Fetch0F(130) /\ (ReadsDisplacement("jc32", emu) => CodeIn(emu, 6)) /\ Return("jc32", jc32(emu))
Run_jnc32 ==
    Fetch0F(131) /\ (ReadsDisplacement("jnc32", emu) => CodeIn(emu, 6)) /\ Return("jnc32", jnc32(emu))
Run_jz32 ==
    Fetch0F(132) /\ (ReadsDisplacement("jz32", emu) => CodeIn(emu, 6)) /\ Return("jz32", jz32(emu))
Run_jnz32 ==
    Fetch0F(133) /\ (ReadsDisplacement("jnz32", emu) => CodeIn(emu, 6)) /\ Return("jnz32", jnz32(emu))
Run_jna32 ==
    Fetch0F(134) /\ (ReadsDisplacement("jna32", emu) => CodeIn(emu, 6)) /\ Return("jna32", jna32(emu))
Run_ja32 ==
    Fetch0F(135) /\ (ReadsDisplacement("ja32", emu) => CodeIn(emu, 6)) /\ Return("ja32", ja32(emu))
Run_jg32 ==
    Fetch0F(143) /\ (ReadsDisplacement("jg32", emu) => CodeIn(emu, 6)) /\ Return("jg32", jg32(emu))

\* An opcode byte with no table entry ends the run with the Emulator as it is.
NotImplemented ==
    /\ Fetch("NULL")
    /\ halt' = "opcode"
    /\ hist' = Append(hist, [h |-> "NULL", pre |-> emu])
    /\ UNCHANGED emu

Next ==
    \/ Run_short_jump \/ Run_near_jump
    \/ Run_mov_r32_imm32 \/ Run_mov_rm32_imm32 \/ Run_mov_rm32_r32 \/ Run_mov_r32_rm32
    \/ Run_add_rm32_r32 \/ Run_cmp_r32_rm32 \/ Run_code_83 \/ Run_code_ff
    \/ Run_push_r32 \/ Run_push_imm32 \/ Run_push_imm8 \/ Run_pop_r32
    \/ Run_call_rel32 \/ Run_ret \/ Run_leave
    \/ Run_jo \/ Run_jno \/ Run_jc \/ Run_jnc \/ Run_jz \/ Run_jnz \/ Run_js \/ Run_jns
    \/ Run_jl \/ Run_jle
    \/ Run_jc32 \/ Run_jnc32 \/ Run_jz32 \/ Run_jnz32 \/ Run_jna32 \/ Run_ja32 \/ Run_jg32
    \/ NotImplemented

----------------------------------------------------------------------------
\* The states the loader hands over: a program at address 0, two data words
\* at 16 and 20, the stack growing down from the end of memory, and the
\* registers and flags drawn from the values below.

MaxPushes == 2

Vals == { <<0, 0, 0, 0>>, <<1, 0, 0, 0>>, <<5, 0, 0, 0>>, <<10, 0, 0, 0>>,
          <<255, 255, 255, 127>>, <<0, 0, 0, 128>>, <<255, 255, 255, 255>> }
DataVals == { <<10, 0, 0, 0>>, <<0, 0, 0, 128>> }
Imm32s == { <<120, 86, 52, 18>>, <<254, 255, 255, 255>> }
Imm8s == { 3, 128, 255 }
Disp8s == { 4, 240, 254 }
Disp32s == { <<4, 0, 0, 0>>, <<240, 255, 255, 255>>, <<0, 0, 0, 128>> }

\* eflags words: the four condition bits in every combination, the bits the
\* core does not use all clear or all set.
FlagWord(c, z, s, o, rest) ==
    <<c + 64 * z + 128 * s + 62 * rest, 8 * o + 247 * rest, 255 * rest, 255 * rest>>
AllFlags == { FlagWord(c, z, s, o, rest) : c \in 0..1, z \in 0..1, s \in 0..1,
                                           o \in 0..1, rest \in 0..1 }
TwoFlags == { FlagWord(0, 0, 0, 0, 1), FlagWord(1, 1, 1, 1, 0) }

ModRMByte(mod, reg, rm) == mod * 64 + reg * 8 + rm

\* Addressing forms: three registers, [EBX], [EBP-4], [ESI+4], [EDI+17].
OperandForms ==
    { [mod |-> 3, rm |-> r, disp |-> <<>>] : r \in {EAX, ECX, EBX} } \cup
    { [mod |-> 0, rm |-> EBX, disp |-> <<>>],
      [mod |-> 1, rm |-> EBP, disp |-> <<252>>],
      [mod |-> 1, rm |-> ESI, disp |-> <<4>>],
      [mod |-> 2, rm |-> EDI, disp |-> <<17, 0, 0, 0>>] }

Enc(op, reg, f, imm) == <<op, ModRMByte(f.mod, reg, f.rm)>> \o f.disp \o imm

ModRMPrograms ==
    { Enc(op, reg, f, <<>>) : op \in {1, 137, 139, 59}, reg \in {EAX, ECX, ESP},
                              f \in OperandForms } \cup
    { Enc(199, 0, f, imm) : f \in OperandForms, imm \in Imm32s } \cup
    { Enc(131, sub, f, <<imm>>) : sub \in {0, 1, 5, 7}, f \in OperandForms,
                                  imm \in Imm8s } \cup
    { Enc(255, sub, f, <<>>) : sub \in {0, 6}, f \in OperandForms }

PlainPrograms ==
    { <<184 + r>> \o imm : r \in {EAX, ESP, EDI}, imm \in Imm32s } \cup
    { <<80 + r>> : r \in {EAX, ESP, EDI} } \cup
    { <<88 + r>> : r \in {EAX, EBX, ESP} } \cup
    { <<104>> \o imm : imm \in Imm32s } \cup
    { <<106, imm>> : imm \in Imm8s } \cup
    { <<232>> \o d : d \in Disp32s } \cup
    { <<195>>, <<201>>, <<144>>, <<15, 11>> }

ShortConditionals == {112, 113, 114, 115, 116, 117, 120, 121, 124, 126}
NearConditionals == {130, 131, 132, 133, 134, 135, 143}

JumpPrograms ==
    { <<op, d>> : op \in ShortConditionals \cup {235}, d \in Disp8s } \cup
    { <<233>> \o d : d \in Disp32s } \cup
    { <<15, op>> \o d : op \in NearConditionals, d \in Disp32s }

\* cmp eax, ecx and then a conditional jump.
CompareJumpPrograms ==
    { <<59, 193, op, 4>> : op \in ShortConditionals } \cup
    { <<59, 193, 15, op, 4, 0, 0, 0>> : op \in NearConditionals }

\* A frame set up and left: push ebp; mov ebp, esp; a push; leave, and a
\* second leave from the frame pointer that one restored.
FramePrograms ==
    { <<85, 137, 229, 106, 3, 201>>, <<85, 137, 229, 80, 201, 201>> }

\* A conditional jump in the last bytes of memory, its displacement behind
\* the end of the buffer.
TailPrograms ==
    { [eip  |-> MemSize - 1,
       code |-> [i \in 1..MemSize |-> IF i = MemSize THEN op ELSE 0]] :
          op \in ShortConditionals } \cup
    { [eip  |-> MemSize - 2,
       code |-> [i \in 1..MemSize |->
                    IF i = MemSize - 1 THEN 15 ELSE IF i = MemSize THEN op ELSE 0]] :
          op \in NearConditionals }

\* push imm8 with every byte as the immediate.
PushImm8Programs == { <<106, b>> : b \in Byte }

\* Up to MaxPushes pushes and then as many pops.
Pushes == { <<80>>, <<84>>, <<104, 120, 86, 52, 18>>, <<106, 128>> }
Pops == { <<88>>, <<89>>, <<92>> }
RECURSIVE Chains(_, _)
Chains(S, n) ==
    IF n = 0 THEN { <<>> } ELSE { a \o b : a \in S, b \in Chains(S, n - 1) }
StackPrograms ==
    UNION { { a \o b : a \in Chains(Pushes, n), b \in Chains(Pops, n) } : n \in 1..MaxPushes }

\* call +3 to a body at 8 that ends in ret, and a call backwards from 8 to a
\* ret at 0.  The bodies: nothing, push/pop, a push left on the stack, and a
\* pop and push that replace the return address.
CallBodies == { <<>>, <<80, 89>>, <<106, 3>>, <<88, 81>> }
CallPrograms ==
    { [eip |-> 0, code |-> <<232, 3, 0, 0, 0, 0, 0, 0>> \o body \o <<195>>] :
          body \in CallBodies } \cup
    { [eip |-> 8, code |-> <<195, 0, 0, 0, 0, 0, 0, 0, 232, 243, 255, 255, 255>>] }

Load(code, data) ==
    [i \in 0..(MemSize - 1) |->
        IF i < Len(code) THEN code[i + 1]
        ELSE IF i \in 16..19 THEN data[i - 15]
        ELSE IF i = 20 THEN 24
        ELSE 0]

Loaded(entry, code, data, flags, a, b) ==
    [eflags            |-> flags,
     registers         |-> [r \in 0..(REGISTERS_COUNT - 1) |->
                               CASE r = EAX -> a
                                 [] r = ECX -> b
                                 [] r = EDX -> <<239, 190, 173, 222>>
                                 [] r = EBX -> U32(16)
                                 [] r = ESP -> U32(MemSize)
                                 [] r = EBP -> U32(20)
                                 [] r = ESI -> U32(12)
                                 [] r = EDI -> <<255, 255, 255, 255>>],
     segment_registers |-> [r \in 0..5 |-> <<8 * r, 0>>],
     control_registers |-> [r \in 0..4 |-> U32(r)],
     memory            |-> Load(code, data),
     eip               |-> U32(entry),
     gdtr              |-> [limit |-> <<255, 0>>, base |-> U32(64)],
     exception         |-> 0]

Init ==
    /\ halt = "none"
    /\ hist = <<>>
    /\ \/ \E code \in ModRMPrograms \cup PlainPrograms, data \in DataVals,
             flags \in TwoFlags, a \in Vals, b \in Vals :
              emu = Loaded(0, code, data, flags, a, b)
       \/ \E code \in JumpPrograms, flags \in AllFlags :
              emu = Loaded(0, code, <<10, 0, 0, 0>>, flags, U32(5), U32(10))
       \/ \E code \in CompareJumpPrograms, a \in Vals, b \in Vals :
              emu = Loaded(0, code, <<10, 0, 0, 0>>, FlagWord(0, 0, 0, 0, 1), a, b)
       \/ \E code \in StackPrograms, a \in {U32(5), <<255, 255, 255, 255>>} :
              emu = Loaded(0, code, <<10, 0, 0, 0>>, FlagWord(0, 0, 0, 0, 1), a, U32(10))
       \/ \E p \in CallPrograms, flags \in TwoFlags :
              emu = Loaded(p.eip, p.code, <<10, 0, 0, 0>>, flags, U32(5), U32(10))
       \/ \E code \in FramePrograms, a \in Vals :
              emu = Loaded(0, code, <<10, 0, 0, 0>>, FlagWord(0, 0, 0, 0, 1), a, U32(10))
       \/ \E p \in TailPrograms, flags \in AllFlags :
              emu = Loaded(p.eip, p.code, <<10, 0, 0, 0>>, flags, U32(5), U32(10))
       \/ \E code \in PushImm8Programs :
              emu = Loaded(0, code, <<10, 0, 0, 0>>, FlagWord(0, 0, 0, 0, 1), U32(5), U32(10))

----------------------------------------------------------------------------
\* Reading the history: step k ran handler hist[k].h on Pre(k) and left Post(k).

Steps == 1..Len(hist)
Pre(k) == hist[k].pre
Post(k) == IF k = Len(hist) THEN emu ELSE hist[k + 1].pre
Exited(k) == k = Len(hist) /\ halt = "sub-opcode"

\* The ModR/M byte of the instruction at e.eip and its fields.
ModRMOf(e) == get_code8(e, 1)
ModOf(e) == ModRMOf(e) \div 64
RegOf(e) == (ModRMOf(e) \div 8) % 8
RmOf(e) == ModRMOf(e) % 8

\* Bytes of a ModR/M byte with its displacement, by the x86 encoding.
ModRMBytes(e) == CASE ModOf(e) = 1 -> 2 [] ModOf(e) = 2 -> 5 [] OTHER -> 1

\* Encoded length of the non-control-transfer instruction at e.eip.
EncodedLength(e) ==
    LET op == get_code8(e, 0)
    IN  CASE op \in 184..191 -> 5
          [] op = 199 -> 1 + ModRMBytes(e) + 4
          [] op \in {1, 59, 137, 139, 255} -> 1 + ModRMBytes(e)
          [] op = 131 -> 1 + ModRMBytes(e) + 1
          [] op \in 80..95 -> 1
          [] op = 104 -> 5
          [] op = 106 -> 2
          [] op = 201 -> 1

NonControlTransfer ==
    { "mov_r32_imm32", "mov_rm32_imm32", "mov_rm32_r32", "mov_r32_rm32", "add_rm32_r32",
      "code_83", "code_ff", "cmp_r32_rm32", "push_r32", "push_imm32", "push_imm8",
      "pop_r32", "leave" }

Lo16(w) == w[1] + 256 * w[2]
Hi16(w) == w[3] + 256 * w[4]
SHi16(w) == IF Hi16(w) >= 32768 THEN Hi16(w) - 65536 ELSE Hi16(w)
ULess(a, b) == Hi16(a) < Hi16(b) \/ (Hi16(a) = Hi16(b) /\ Lo16(a) < Lo16(b))
\* the signed difference a - b is hi * 65536 + lo with lo in 0..65535
SignedDiffFits(a, b) ==
    LET hi == SHi16(a) - SHi16(b) - (IF Lo16(a) < Lo16(b) THEN 1 ELSE 0)
    IN  hi >= -32768 /\ hi <= 32767

\* The operands a and b of the subtraction step k made, when it made one.
Compares(k) ==
    \/ hist[k].h = "cmp_r32_rm32"
    \/ hist[k].h = "code_83" /\ RegOf(Pre(k)) \in {5, 7}
Decoded(k) == parse_modrm(Advance(Pre(k), 1))
OperandA(k) ==
    IF hist[k].h = "cmp_r32_rm32" THEN Pre(k).registers[RegOf(Pre(k))]
    ELSE get_rm32(Decoded(k).emu, Decoded(k).modrm)
OperandB(k) ==
    IF hist[k].h = "cmp_r32_rm32" THEN get_rm32(Decoded(k).emu, Decoded(k).modrm)
    ELSE SignExt8(get_code8(Pre(k), 1 + ModRMBytes(Pre(k))))

\* C2: after a subtraction or comparison of a with b, zero is set iff a = b,
\* carry iff a < b unsigned, sign iff bit 31 of (a - b) mod 2^32 is set, and
\* overflow iff the signed difference does not fit in 32 bits.
C2_SubtractionFlags ==
    \A k \in Steps :
        Compares(k) =>
            LET a == OperandA(k)
                b == OperandB(k)
                f == Post(k).eflags
            IN  /\ (Bit(f, 6) = 1) <=> (a = b)
                /\ (Bit(f, 0) = 1) <=> ULess(a, b)
                /\ (Bit(f, 7) = 1) <=> (Sub32(a, b)[4] >= 128)
                /\ (Bit(f, 11) = 1) <=> ~SignedDiffFits(a, b)

\* cmp of 0x80000000 with 1: no borrow, positive result, signed overflow.
C2_Witness ==
    \E k \in Steps :
        /\ hist[k].h = "cmp_r32_rm32"
        /\ OperandA(k) = <<0, 0, 0, 128>>
        /\ OperandB(k) = <<1, 0, 0, 0>>
        /\ Bit(Post(k).eflags, 11) = 1
        /\ Bit(Post(k).eflags, 0) = 0

\* The tabulated condition of each conditional jump, on the flags of e.
CF(e) == Bit(e.eflags, 0) = 1
ZF(e) == Bit(e.eflags, 6) = 1
SF(e) == Bit(e.eflags, 7) = 1
OF(e) == Bit(e.eflags, 11) = 1
ShortJumps == {"jo", "jno", "jc", "jnc", "jz", "jnz", "js", "jns", "jl", "jle"}
NearJumps == {"jc32", "jnc32", "jz32", "jnz32", "jna32", "ja32", "jg32"}
Tabulated(h, e) ==
    CASE h \in {"jc", "jc32"} -> CF(e)
      [] h \in {"jnc", "jnc32"} -> ~CF(e)
      [] h \in {"jz", "jz32"} -> ZF(e)
      [] h \in {"jnz", "jnz32"} -> ~ZF(e)
      [] h = "js" -> SF(e)
      [] h = "jns" -> ~SF(e)
      [] h = "jo" -> OF(e)
      [] h = "jno" -> ~OF(e)
      [] h = "jl" -> SF(e) # OF(e)
      [] h = "jle" -> ZF(e) \/ (SF(e) # OF(e))
      [] h = "jna32" -> CF(e) \/ ZF(e)
      [] h = "ja32" -> ~CF(e) /\ ~ZF(e)
      [] h = "jg32" -> ~ZF(e) /\ (SF(e) = OF(e))
FixedLength(h) == IF h \in ShortJumps THEN 2 ELSE 6
Displacement(h, e) ==
    IF h \in ShortJumps THEN SignExt8(get_code8(e, 1)) ELSE get_code32(e, 2)

\* C3: a conditional jump whose condition is false advances eip by exactly
\* its fixed length, 2 (short) or 6 (near), whatever the displacement.
C3_NotTakenFixedLength ==
    \A k \in Steps :
        hist[k].h \in ShortJumps \cup NearJumps /\ ~Tabulated(hist[k].h, Pre(k)) =>
            Post(k).eip = Add32(Pre(k).eip, U32(FixedLength(hist[k].h)))

\* jnz not taken over a negative displacement.
C3_Witness ==
    \E k \in Steps :
        /\ hist[k].h = "jnz" /\ ZF(Pre(k)) /\ get_code8(Pre(k), 1) = 240
        /\ Post(k).eip = Add32(Pre(k).eip, U32(2))

\* The value a push step pushes and the register a pop step fills.
IsPush(k) == hist[k].h \in {"push_r32", "push_imm32", "push_imm8"}
IsPop(k) == hist[k].h = "pop_r32"
PushedValue(k) ==
    CASE hist[k].h = "push_r32" -> Pre(k).registers[get_code8(Pre(k), 0) - 80]
      [] hist[k].h = "push_imm32" -> get_code32(Pre(k), 1)
      [] hist[k].h = "push_imm8" -> ZeroExt8(get_code8(Pre(k), 1))
PopRegister(k) == get_code8(Pre(k), 0) - 88
PoppedValue(k) == Post(k).registers[PopRegister(k)]

\* Steps i .. i+2n-1 are n pushes and then n pops.
PushPopRun(i, n) ==
    /\ i + 2 * n - 1 <= Len(hist)
    /\ \A j \in 0..(n - 1) : IsPush(i + j) /\ IsPop(i + n + j)
Reversed(i, n) ==
    /\ \A j \in 0..(n - 1) : PoppedValue(i + n + j) = PushedValue(i + n - 1 - j)
    /\ Post(i + 2 * n - 1).registers[ESP] = Pre(i).registers[ESP]

\* C4 as stated: n pushes and then n pops, into any register, ESP included,
\* yield the pushed values in reverse order and leave ESP as it was before the
\* first push.
C4_PushPopAnyRegister ==
    \A i \in Steps : \A n \in 1..Len(hist) : PushPopRun(i, n) => Reversed(i, n)

\* C4 amended: the same for n pops none of which is into ESP.
C4_PushPopRoundTrip ==
    \A i \in Steps : \A n \in 1..Len(hist) :
        PushPopRun(i, n) /\ (\A j \in 0..(n - 1) : PopRegister(i + n + j) # ESP) =>
            Reversed(i, n)

\* push esp, push imm8 0x80, pop ecx, pop eax.
C4_Witness ==
    /\ Len(hist) >= 4
    /\ PushPopRun(1, 2)
    /\ hist[1].h = "push_r32" /\ hist[2].h = "push_imm8"
    /\ PopRegister(3) = ECX /\ PopRegister(4) = EAX
    /\ Post(4).registers[EAX] = Pre(1).registers[ESP]
    /\ Post(4).registers[ECX] = <<128, 0, 0, 0>>

\* C5: call rel32 at A with stack pointer S pushes A + 5, leaves ESP = S - 4
\* and eip = A + 5 + rel32; a later ret entered with ESP = S - 4 and the pushed
\* word still there leaves eip = A + 5 and ESP = S.
C5_CallRetPairing ==
    \A i \in Steps :
        hist[i].h = "call_rel32" =>
            LET A      == Pre(i).eip
                S      == Pre(i).registers[ESP]
                return == Add32(A, U32(5))
                top    == Sub32(S, U32(4))
            IN  /\ Post(i).registers[ESP] = top
                /\ get_memory32(Post(i), top) = return
                /\ Post(i).eip = Add32(return, get_code32(Pre(i), 1))
                /\ \A j \in Steps :
                       /\ j > i
                       /\ hist[j].h = "ret"
                       /\ Pre(j).registers[ESP] = top
                       /\ get_memory32(Pre(j), top) = return
                       => Post(j).eip = return /\ Post(j).registers[ESP] = S

\* call, push eax, pop ecx, ret: back behind the call.
C5_Witness ==
    /\ Len(hist) >= 4
    /\ hist[1].h = "call_rel32" /\ hist[2].h = "push_r32"
    /\ hist[3].h = "pop_r32" /\ hist[4].h = "ret"
    /\ Post(4).eip = Add32(Pre(1).eip, U32(5))
    /\ Post(4).registers[ESP] = Pre(1).registers[ESP]

\* C6: mov with mod = 11 between two distinct registers, in either direction
\* (0x89, 0x8B), copies the source register into the destination and leaves
\* the other seven registers as they were.
C6_RegisterDirectMov ==
    \A k \in Steps :
        /\ hist[k].h \in {"mov_rm32_r32", "mov_r32_rm32"}
        /\ ModOf(Pre(k)) = 3
        /\ RegOf(Pre(k)) # RmOf(Pre(k))
        => LET src == IF hist[k].h = "mov_rm32_r32" THEN RegOf(Pre(k)) ELSE RmOf(Pre(k))
               dst == IF hist[k].h = "mov_rm32_r32" THEN RmOf(Pre(k)) ELSE RegOf(Pre(k))
           IN  /\ Post(k).registers[dst] = Pre(k).registers[src]
               /\ \A r \in 0..7 : r # dst => Post(k).registers[r] = Pre(k).registers[r]

\* mov esp, eax (8B E0) with eax # esp.
C6_Witness ==
    \E k \in Steps :
        /\ hist[k].h = "mov_r32_rm32"
        /\ ModRMOf(Pre(k)) = 224
        /\ Pre(k).registers[EAX] # Pre(k).registers[ESP]
        /\ Post(k).registers[ESP] = Pre(k).registers[EAX]

\* The Emulator e with the sub-opcode field of the ModR/M byte at eip + 1 set.
WithSubOp(e, sub) ==
    LET a == Idx(e.eip) + 1
    IN  [e EXCEPT !.memory[a] = @ - RegOf(e) * 8 + sub * 8]

\* C7: for 0x83 on the same operand and immediate, sub-op 7 changes neither
\* the operand nor any other register or memory byte and leaves eflags as
\* sub-op 5 does; sub-op 5 stores (operand - sign-extended imm8) mod 2^32 and
\* leaves eflags as sub-op 7 does; operand 10 and immediate 3 give 7, carry
\* and zero clear.
C7_CmpIsSubWithoutStore ==
    \A k \in Steps :
        hist[k].h = "code_83" /\ RegOf(Pre(k)) \in {5, 7} =>
            LET m  == Decoded(k).modrm
                a  == get_rm32(Decoded(k).emu, m)
                b  == OperandB(k)
            IN  /\ RegOf(Pre(k)) = 7 =>
                     /\ Post(k).registers = Pre(k).registers
                     /\ Post(k).memory = Pre(k).memory
                     /\ Post(k).eflags = code_83(WithSubOp(Pre(k), 5)).emu.eflags
                /\ RegOf(Pre(k)) = 5 =>
                     /\ get_rm32(Post(k), m) = Sub32(a, b)
                     /\ Post(k).eflags = code_83(WithSubOp(Pre(k), 7)).emu.eflags
                     /\ a = U32(10) /\ b = U32(3) =>
                            /\ get_rm32(Post(k), m) = U32(7)
                            /\ ~CF(Post(k)) /\ ~ZF(Post(k))

\* 83 /5 on a memory operand holding 10 with immediate 3, entered with carry
\* and zero set.
C7_Witness ==
    \E k \in Steps :
        /\ hist[k].h = "code_83" /\ RegOf(Pre(k)) = 5 /\ ModOf(Pre(k)) = 1
        /\ CF(Pre(k)) /\ ZF(Pre(k))
        /\ get_rm32(Decoded(k).emu, Decoded(k).modrm) = U32(10)
        /\ OperandB(k) = U32(3)
        /\ get_rm32(Post(k), Decoded(k).modrm) = U32(7)

\* The sub-opcodes the two groups have a case for.
Handled(h) == IF h = "code_83" THEN {0, 5, 7} ELSE {0}
Unhandled(k) == hist[k].h \in {"code_83", "code_ff"} /\ RegOf(Pre(k)) \notin Handled(hist[k].h)

C9_NearJumpsDispatched ==
    halt = "opcode" =>
        ~(/\ CodeIn(emu, 2)
          /\ get_code8(emu, 0) = 15
          /\ get_code8(emu, 1) \in {130, 131, 132, 133, 134, 135, 143})

\* C10: each conditional jump is taken exactly under its tabulated condition:
\* it leaves eip at eip + fixed length + sign-extended displacement when the
\* condition holds and, the displacement being non-zero, only then.
C10_TakenIffTabulated ==
    \A k \in Steps :
        LET h == hist[k].h
        IN  h \in ShortJumps \cup NearJumps /\ CodeIn(Pre(k), FixedLength(h)) =>
                LET d      == Displacement(h, Pre(k))
                    target == Add32(Add32(Pre(k).eip, U32(FixedLength(h))), d)
                IN  /\ Tabulated(h, Pre(k)) => Post(k).eip = target
                    /\ d # U32(0) /\ Post(k).eip = target => Tabulated(h, Pre(k))

\* jg32 taken backwards from eip 0: eip wraps to 2^32 - 10.
C10_Witness ==
    \E k \in Steps :
        /\ hist[k].h = "jg32"
        /\ ~ZF(Pre(k)) /\ SF(Pre(k)) /\ OF(Pre(k))
        /\ Pre(k).eip = U32(0)
        /\ get_code32(Pre(k), 2) = <<240, 255, 255, 255>>
        /\ emu.eip = <<246, 255, 255, 255>>

\* A word with the carry, zero, sign and overflow bits cleared.
OtherBits(w) == WithBit(WithBit(WithBit(WithBit(w, 0, 0), 6, 0), 7, 0), 11, 0)

\* C11: only the sub and cmp forms (0x83 /5 and /7, cmp r32,rm32) change
\* eflags, and of it only bits 0, 6, 7 and 11; every other handler leaves the
\* whole eflags word as it was.
C11_OnlySubAndCmpTouchFlags ==
    \A k \in Steps :
        IF Compares(k)
        THEN OtherBits(Post(k).eflags) = OtherBits(Pre(k).eflags)
        ELSE Post(k).eflags = Pre(k).eflags

\* cmp 0, 1 entered with the four condition bits clear and every other bit
\* set: carry and sign come on, the other bits stay set.
C11_Witness ==
    \E k \in Steps :
        /\ hist[k].h = "cmp_r32_rm32"
        /\ Pre(k).eflags = FlagWord(0, 0, 0, 0, 1)
        /\ Post(k).eflags = FlagWord(1, 0, 1, 0, 1)

\* Signed order of two words: the unsigned order with bit 31 inverted.
FlipSign(w) == [w EXCEPT ![4] = (@ + 128) % 256]
SLess(a, b) == ULess(FlipSign(a), FlipSign(b))

\* The comparison each jump stands for after cmp a, b.
Relation(h, a, b) ==
    CASE h = "jz" -> a = b
      [] h = "jc" -> ULess(a, b)
      [] h = "jna32" -> ULess(a, b) \/ a = b
      [] h = "ja32" -> ULess(b, a)
      [] h = "jl" -> SLess(a, b)
      [] h = "jle" -> SLess(a, b) \/ a = b
      [] h = "jg32" -> SLess(b, a)
Taken(j) ==
    Post(j).eip = Add32(Add32(Pre(j).eip, U32(FixedLength(hist[j].h))),
                        Displacement(hist[j].h, Pre(j)))

\* C12: after cmp r32, rm32 with r32 = a and rm32 = b, the conditional jump
\* that follows is taken exactly when its comparison of a with b holds: jz
\* a = b, jc a < b unsigned, jna32 a <= b unsigned, ja32 a > b unsigned, jl
\* a < b signed, jle a <= b signed, jg32 a > b signed, signed overflow of
\* a - b included.
C12_JumpAfterCmp ==
    \A k \in Steps :
        /\ k + 1 \in Steps
        /\ hist[k].h = "cmp_r32_rm32"
        /\ hist[k + 1].h \in {"jz", "jc", "jna32", "ja32", "jl", "jle", "jg32"}
        /\ CodeIn(Pre(k + 1), FixedLength(hist[k + 1].h))
        /\ Displacement(hist[k + 1].h, Pre(k + 1)) # U32(0)
        => (Taken(k + 1) <=> Relation(hist[k + 1].h, OperandA(k), OperandB(k)))

\* cmp 0x80000000, 1 and jl: the difference overflows, the sign flag is
\* clear, and the jump is taken.
C12_Witness ==
    /\ Len(hist) >= 2
    /\ hist[1].h = "cmp_r32_rm32" /\ hist[2].h = "jl"
    /\ OperandA(1) = <<0, 0, 0, 128>> /\ OperandB(1) = <<1, 0, 0, 0>>
    /\ ~SF(Pre(2)) /\ OF(Pre(2))
    /\ Taken(2)

\* The handlers that call parse_modrm, the Emulator they call it on (eip at
\* the ModR/M byte, after their eip += 1), and the immediate bytes each
\* steps over after the call.
ModRMHandlers ==
    { "mov_rm32_imm32", "mov_rm32_r32", "mov_r32_rm32", "add_rm32_r32", "cmp_r32_rm32",
      "code_83", "code_ff" }
AtModRM(k) == Advance(Pre(k), 1)
ImmBytes(k) ==
    CASE hist[k].h = "mov_rm32_imm32" -> 4
      [] hist[k].h = "code_83" /\ RegOf(Pre(k)) \in {0, 5, 7} -> 1
      [] OTHER -> 0

RegisterRange(h) ==
    CASE h = "push_r32" -> 80..87
      [] h = "pop_r32" -> 88..95
      [] h = "mov_r32_imm32" -> 184..191
RegisterEncoded == {"push_r32", "pop_r32", "mov_r32_imm32"}
OpcodeBase(h) == CHOOSE b \in RegisterRange(h) : \A c \in RegisterRange(h) : b <= c

\* C14: every register index a handler reached through the dispatch table
\* uses is in 0..7: the table binds push_r32, pop_r32 and mov_r32_imm32 to
\* 0x50-0x57, 0x58-0x5F and 0xB8-0xBF and to no other opcode, the register
\* each of them reads or writes is the one numbered opcode - base, and the
\* register fields of a decoded ModR/M byte are in 0..7.
C14_RegisterIndexInRange ==
    /\ \A op \in 0..255 : \A h \in RegisterEncoded :
           instructions[op] = h <=> op \in RegisterRange(h)
    /\ \A k \in Steps :
           /\ hist[k].h \in RegisterEncoded =>
                 LET reg == get_code8(Pre(k), 0) - OpcodeBase(hist[k].h)
                 IN  /\ reg \in 0..(REGISTERS_COUNT - 1)
                     /\ hist[k].h = "push_r32" =>
                            get_memory32(Post(k), Post(k).registers[ESP]) =
                                Pre(k).registers[reg]
                     /\ hist[k].h = "pop_r32" =>
                            Post(k).registers[reg] =
                                get_memory32(Pre(k), Pre(k).registers[ESP])
                     /\ hist[k].h = "mov_r32_imm32" =>
                            Post(k).registers[reg] = get_code32(Pre(k), 1)
           /\ hist[k].h \in ModRMHandlers =>
                 /\ parse_modrm(AtModRM(k)).modrm.opcode \in 0..(REGISTERS_COUNT - 1)
                 /\ parse_modrm(AtModRM(k)).modrm.rm \in 0..(REGISTERS_COUNT - 1)
           /\ DOMAIN Post(k).registers = 0..(REGISTERS_COUNT - 1)

\* mov edi, 0x12345678 (BF ...): index 0xBF - 0xB8 = 7.
C14_Witness ==
    \E k \in Steps :
        /\ hist[k].h = "mov_r32_imm32"
        /\ get_code8(Pre(k), 0) = 191
        /\ Pre(k).registers[EDI] # <<120, 86, 52, 18>>
        /\ Post(k).registers[EDI] = <<120, 86, 52, 18>>

\* C15: push imm8 stores its immediate byte b, 0x80 to 0xFF included, zero
\* extended to 32 bits at the new top of the stack, lowers ESP by 4 and
\* advances eip by 2.
C15_PushImm8ZeroExtends ==
    \A k \in Steps :
        hist[k].h = "push_imm8" =>
            LET b   == get_code8(Pre(k), 1)
                top == Sub32(Pre(k).registers[ESP], U32(4))
            IN  /\ get_memory32(Post(k), top) = <<b, 0, 0, 0>>
                /\ Post(k).registers[ESP] = top
                /\ Post(k).eip = Add32(Pre(k).eip, U32(2))

\* push 0xFF stores 0x000000FF.
C15_Witness ==
    \E k \in Steps :
        /\ hist[k].h = "push_imm8"
        /\ get_code8(Pre(k), 1) = 255
        /\ get_memory32(Post(k), Post(k).registers[ESP]) = <<255, 0, 0, 0>>
        /\ Post(k).registers[ESP] = U32(MemSize - 4)

\* C16: leave with EBP = B leaves in EBP the word that was stored at B, ESP
\* at B + 4 and eip one byte on, and changes no other general register.
C16_Leave ==
    \A k \in Steps :
        hist[k].h = "leave" =>
            LET B == Pre(k).registers[EBP]
            IN  /\ Post(k).registers[EBP] = get_memory32(Pre(k), B)
                /\ Post(k).registers[ESP] = Add32(B, U32(4))
                /\ Post(k).eip = Add32(Pre(k).eip, U32(1))
                /\ \A r \in 0..(REGISTERS_COUNT - 1) \ {ESP, EBP} :
                       Post(k).registers[r] = Pre(k).registers[r]

\* push ebp; mov ebp, esp; push 3; leave: the frame pointer and the stack
\* pointer are back where they were.
C16_Witness ==
    /\ Len(hist) >= 4
    /\ hist[1].h = "push_r32" /\ hist[2].h = "mov_rm32_r32"
    /\ hist[3].h = "push_imm8" /\ hist[4].h = "leave"
    /\ Pre(4).registers[EBP] = U32(MemSize - 4)
    /\ Pre(4).registers[ESP] = U32(MemSize - 8)
    /\ Post(4).registers[EBP] = Pre(1).registers[EBP]
    /\ Post(4).registers[ESP] = Pre(1).registers[ESP]

\* C17: the short jump leaves eip at (eip + 2 + sign-extended 8-bit offset)
\* mod 2^32 and the near jump at (eip + 5 + 32-bit offset) mod 2^32, so that a
\* negative offset moves eip backwards (the short jump with offset -2 stays
\* on itself), and neither changes a register, a flag or a memory byte.
C17_UnconditionalJumps ==
    \A k \in Steps :
        /\ hist[k].h = "short_jump" =>
              LET b == get_code8(Pre(k), 1)
              IN  /\ Post(k) = [Pre(k) EXCEPT
                                   !.eip = Add32(Add32(@, U32(2)), SignExt8(b))]
                  /\ b >= 128 =>
                         Post(k).eip = Sub32(Add32(Pre(k).eip, U32(2)), U32(256 - b))
                  /\ b = 254 => Post(k).eip = Pre(k).eip
        /\ hist[k].h = "near_jump" =>
              Post(k) = [Pre(k) EXCEPT
                             !.eip = Add32(Add32(@, U32(5)), get_code32(Pre(k), 1))]

\* jmp -2 run twice from the same eip.
C17_Witness ==
    /\ Len(hist) >= 2
    /\ hist[1].h = "short_jump" /\ hist[2].h = "short_jump"
    /\ get_code8(Pre(1), 1) = 254
    /\ Pre(2).eip = Pre(1).eip
    /\ emu.eip = Pre(1).eip

\* The fields no handler of the subset writes.
SystemFields(e) ==
    <<e.segment_registers, e.control_registers, e.gdtr, e.exception>>

\* C18: after any sequence of executed instructions segment_registers,
\* control_registers, gdtr and exception hold the values they had in the
\* initial Machine State.
C18_SystemFieldsPreserved ==
    \A k \in Steps : SystemFields(Post(k)) = SystemFields(Pre(1))

\* call, push eax, pop ecx, ret have run: registers, memory and eip have
\* changed, the four fields have not.
C18_Witness ==
    /\ Len(hist) >= 4
    /\ hist[1].h = "call_rel32" /\ hist[2].h = "push_r32"
    /\ hist[3].h = "pop_r32" /\ hist[4].h = "ret"
    /\ emu.memory # Pre(1).memory
    /\ emu.registers # Pre(1).registers
    /\ emu.segment_registers[1] = <<8, 0>>
    /\ emu.control_registers[3] = U32(3)
    /\ emu.gdtr = [limit |-> <<255, 0>>, base |-> U32(64)]
    /\ emu.exception = 0

\* The conditional jump named h called on the Emulator e, and whether it
\* leaves eip at the jump target.
CallJump(h, e) ==
    CASE h = "jo" -> jo(e) [] h = "jno" -> jno(e)
      [] h = "jc" -> jc(e) [] h = "jnc" -> jnc(e)
      [] h = "jz" -> jz(e) [] h = "jnz" -> jnz(e)
      [] h = "js" -> js(e) [] h = "jns" -> jns(e)
      [] h = "jl" -> jl(e) [] h = "jle" -> jle(e)
      [] h = "jc32" -> jc32(e) [] h = "jnc32" -> jnc32(e)
      [] h = "jz32" -> jz32(e) [] h = "jnz32" -> jnz32(e)
      [] h = "jna32" -> jna32(e) [] h = "ja32" -> ja32(e)
      [] h = "jg32" -> jg32(e)
TakenBy(h, e) ==
    CallJump(h, e).eip = Add32(Add32(e.eip, U32(FixedLength(h))), Displacement(h, e))

ShortPairs == { <<"jc", "jnc">>, <<"jz", "jnz">>, <<"js", "jns">>, <<"jo", "jno">> }
NearPairs == { <<"jc32", "jnc32">>, <<"jz32", "jnz32">>, <<"jna32", "ja32">> }

\* C19: on the same Emulator, whatever its eflags, exactly one handler of
\* each pair jc/jnc, jz/jnz, js/jns, jo/jno, jc32/jnc32, jz32/jnz32 and
\* jna32/ja32 is taken, and jle is taken exactly when jg32 is not.
C19_ComplementaryPairs ==
    \A k \in Steps :
        LET e == Pre(k)
        IN  /\ /\ hist[k].h \in ShortJumps
                /\ CodeIn(e, 2)
                /\ Displacement("jc", e) # U32(0)
                => \A p \in ShortPairs : TakenBy(p[1], e) # TakenBy(p[2], e)
            /\ /\ hist[k].h \in NearJumps
                /\ CodeIn(e, 6)
                /\ Displacement("jc32", e) # U32(0)
                => /\ \A p \in NearPairs : TakenBy(p[1], e) # TakenBy(p[2], e)
                   /\ TakenBy("jle", e) # TakenBy("jg32", e)

\* ja32 entered with carry set and zero clear: not taken, where jna32 on the
\* same Emulator is.
C19_Witness ==
    \E k \in Steps :
        /\ hist[k].h = "ja32"
        /\ CF(Pre(k)) /\ ~ZF(Pre(k))
        /\ Displacement("ja32", Pre(k)) # U32(0)
        /\ Post(k).eip = Add32(Pre(k).eip, U32(6))
        /\ TakenBy("jna32", Pre(k))
        /\ ~TakenBy("ja32", Pre(k))

ConditionalJump(k) == hist[k].h \in ShortJumps \cup NearJumps
FallThrough(k) == Add32(Pre(k).eip, U32(FixedLength(hist[k].h)))

Spec == Init /\ [][Next]_vars

====
